---- MODULE Spec2Model ----
(***************************************************************************)
(* Generated-code parsing of the AI website generator                      *)
(* (src/generator/views.py).                                               *)
(*                                                                         *)
(* Text is a sequence of tokens.  A token is a literal piece of text that  *)
(* the regular expressions and substring searches of views.py treat as a   *)
(* unit: no pattern of the code can match from the middle of a token or    *)
(* end in the middle of one.  Joining the tokens of a sequence gives the   *)
(* Python string it stands for.                                            *)
(***************************************************************************)
EXTENDS Integers, Sequences, FiniteSets, TLC

VARIABLES reply, result, pc, ret

\* the argument of a categorize_file call
VARIABLES path_arg

\* what the completion backend does with the request of a completion client
VARIABLES backend

\* the module globals of views.py, the requests being served, each on its own
\* thread, and the last response sent
VARIABLES generated_websites, latest_html, latest_project, threads, response

webvars == <<generated_websites, latest_html, latest_project, threads, response>>

vars == <<reply, result, pc, ret, path_arg, backend, webvars>>

----------------------------------------------------------------------------
(* Tokens *)

\* the fence delimiter: three backquote characters (a TLA+ string cannot hold a backquote)
FENCE == "<3 backquotes>"
NL == "\n"
SP == " "
DOCTYPE == "<!DOCTYPE html>"
DoctypeLower == "<!doctype html>"
HTML_OPEN == "<html"
HEAD == "<head>"
TAILWIND == "cdn.tailwindcss.com"

\* \s of the patterns
IsSpace(t) == t \in {SP, NL}

\* \w of pattern1: tokens made of word characters only
IsWord(t) == t \in {"x", "y", "z", "html", "htm", "HTML", "noise", "more", "index"}

\* (?://|#)
IsCommentPrefix(t) == t \in {"//", "#"}

\* str.lower() / re.IGNORECASE, token by token
\* filename with its casing kept
LowerSkipped(t) == t

\* str.lower() of one token
Lower(t) ==
    CASE t = "Filename:" -> "filename:"
      [] t = "HTML" -> "html"
      [] t = DOCTYPE -> DoctypeLower
      [] t = "README" -> "readme"
      [] t = ".MD" -> ".md"
      [] t = ".HTML" -> ".html"
      [] t = "App.py" -> "app.py"
      [] OTHER -> t

----------------------------------------------------------------------------
(* Sequence helpers *)

Min(S) == CHOOSE m \in S : \A n \in S : m <= n

Max(S) == CHOOSE m \in S : \A n \in S : m >= n

\* s[a..b], empty when b < a
Slice(s, a, b) == IF b < a THEN <<>> ELSE SubSeq(s, a, b)

\* the token classes the patterns look for
Is(class, t) ==
    CASE class = "NL" -> t = NL
      [] class = "FENCE" -> t = FENCE
      [] class = "NotSpace" -> ~IsSpace(t)
      [] class = "NotWord" -> ~IsWord(t)

\* first index >= from whose token is of the class, 0 when there is none
NextIndex(s, from, class) ==
    LET S == {k \in from..Len(s) : Is(class, s[k])}
    IN IF S = {} THEN 0 ELSE Min(S)

\* index just after a greedy run of tokens that are not of the class
SkipTo(s, from, class) ==
    LET k == NextIndex(s, from, class)
    IN IF k = 0 THEN Len(s) + 1 ELSE k

\* str.strip()
Strip(s) ==
    LET S == {k \in 1..Len(s) : ~IsSpace(s[k])}
    IN IF S = {} THEN <<>> ELSE SubSeq(s, Min(S), Max(S))

\* x in s, for a needle x that is one token
Contains(s, t) == \E k \in 1..Len(s) : s[k] = t

\* s.find(t) as a 1-based index, 0 for -1
Find(s, t) ==
    LET S == {k \in 1..Len(s) : s[k] = t}
    IN IF S = {} THEN 0 ELSE Min(S)

Count(s, t) == Cardinality({k \in 1..Len(s) : s[k] = t})

----------------------------------------------------------------------------
(* The two filename-marker patterns of parse_generated_code *)

\* mutant: the comment prefix is optional
MarkerEndPrefixOptional(s, i) ==
    IF i > Len(s) \/ i < 1 THEN 0
    ELSE IF Lower(s[i]) = "filename:" THEN i + 1
    ELSE IF ~IsCommentPrefix(s[i]) THEN 0
    ELSE LET j == SkipTo(s, i + 1, "NotSpace")
         IN IF j <= Len(s) /\ Lower(s[j]) = "filename:" THEN j + 1 ELSE 0

\* (?://|#)\s*filename: matched at index i, case-insensitively: the index just
\* after the keyword, 0 when no marker starts at i
MarkerEnd(s, i) ==
    IF i > Len(s) \/ i < 1 THEN 0
    ELSE IF ~IsCommentPrefix(s[i]) THEN 0
    ELSE LET j == SkipTo(s, i + 1, "NotSpace")
         IN IF j <= Len(s) /\ Lower(s[j]) = "filename:" THEN j + 1 ELSE 0

\* \s*(.+?)\n from index q on, followed (pattern1 only) by (.*?) and a fence.
\* \s* is greedy and gives whitespace back one token at a time; (.+?) is lazy
\* and takes at least one token.  The result is <<p, n>>: the name is
\* s[p..n-1] and s[n] is the newline; <<0, 0>> when nothing matches.
NameSplit(s, q, needFence) ==
    LET W == SkipTo(s, q, "NotSpace") - q
        NlOf(w) == NextIndex(s, q + w + 1, "NL")
        Ok(w) == /\ NlOf(w) # 0
                 /\ (needFence => NextIndex(s, NlOf(w) + 1, "FENCE") # 0)
        Good == {w \in 0..W : Ok(w)}
    IN IF Good = {} THEN <<0, 0>>
       ELSE <<q + Max(Good), NlOf(Max(Good))>>

NoMatch == [found |-> FALSE, filename |-> <<>>, code |-> <<>>, end |-> 0]

\* pattern1 = fence [\w]*\n?(?://|#)\s*filename:\s*(.+?)\n(.*?) fence, matched
\* at index i; filename and code are group(1).strip() and group(2).strip()
Match1(s, i) ==
    IF i > Len(s) THEN NoMatch
    ELSE IF s[i] # FENCE THEN NoMatch
    ELSE LET j  == SkipTo(s, i + 1, "NotWord")
             j2 == IF j <= Len(s) /\ s[j] = NL THEN j + 1 ELSE j
             q  == MarkerEnd(s, j2)
             pn == NameSplit(s, q, TRUE)
             f  == NextIndex(s, pn[2] + 1, "FENCE")
         IN IF q = 0 THEN NoMatch
            ELSE IF pn[1] = 0 THEN NoMatch
            ELSE [found |-> TRUE,
                  filename |-> Strip(Slice(s, pn[1], pn[2] - 1)),
                  code |-> Strip(Slice(s, pn[2] + 1, f - 1)),
                  end |-> f]

\* (?=(?://|#)\s*filename:|$) at index k; without re.MULTILINE, $ matches at
\* the end of the text and just before a newline that ends the text
Lookahead(s, k) ==
    \/ MarkerEnd(s, k) # 0
    \/ k = Len(s) + 1
    \/ (k = Len(s) /\ s[k] = NL)

\* re.sub(fence \s*$, '', code) on an already stripped code: only a fence that
\* is the last token is removed, and what stood before it is kept as it is
RemoveTrailingFence(code) ==
    IF Len(code) > 0 /\ code[Len(code)] = FENCE
    THEN SubSeq(code, 1, Len(code) - 1)
    ELSE code

\* pattern2 = (?://|#)\s*filename:\s*(.+?)\n(.*?)(?=(?://|#)\s*filename:|$),
\* matched at index i; code is group(2).strip() with the trailing fence removed
Match2(s, i) ==
    LET q  == MarkerEnd(s, i)
        pn == NameSplit(s, q, FALSE)
        k  == Min({m \in (pn[2] + 1)..(Len(s) + 1) : Lookahead(s, m)})
    IN IF q = 0 THEN NoMatch
       ELSE IF pn[1] = 0 THEN NoMatch
       ELSE [found |-> TRUE,
             filename |-> Strip(Slice(s, pn[1], pn[2] - 1)),
             code |-> RemoveTrailingFence(Strip(Slice(s, pn[2] + 1, k - 1))),
             end |-> k - 1]

\* the pattern of the first (pass = 1) or of the second loop, matched at i
MatchAt(pass, s, i) == IF pass = 1 THEN Match1(s, i) ELSE Match2(s, i)

RECURSIVE FindAll(_, _, _)

\* the scan after the pattern was tried at i with result m: it goes on after
\* the match, or at the next index
FindNext(pass, s, i, m) ==
    IF m.found THEN <<m>> \o FindAll(pass, s, m.end + 1)
    ELSE FindAll(pass, s, i + 1)

\* re.finditer: the non-overlapping matches from left to right, as a sequence
FindAll(pass, s, i) ==
    IF i > Len(s) THEN <<>>
    ELSE FindNext(pass, s, i, MatchAt(pass, s, i))

Matches1(s) == FindAll(1, s, 1)

Matches2(s) == FindAll(2, s, 1)

----------------------------------------------------------------------------
(* parse_generated_code *)

\* the files dict: a function from filename to code
NoFiles == [p \in {} |-> <<>>]

\* files[filename] = code
Store(files, filename, code) ==
    [p \in (DOMAIN files) \cup {filename} |->
        IF p = filename THEN code ELSE files[p]]

\* the loop over matches1: every match is stored
RECURSIVE Pass1(_, _)
Pass1(files, ms) ==
    IF ms = <<>> THEN files
    ELSE Pass1(Store(files, Head(ms).filename, Head(ms).code), Tail(ms))

\* the loop over matches2: a match is stored if its filename is not in files
RECURSIVE Pass2(_, _)
Pass2(files, ms) ==
    IF ms = <<>> THEN files
    ELSE IF Head(ms).filename \in DOMAIN files THEN Pass2(files, Tail(ms))
    ELSE Pass2(Store(files, Head(ms).filename, Head(ms).code), Tail(ms))

IndexHtml == <<"index", ".html">>

\* re.search(fence html\n(.*?) fence, content, re.DOTALL): group(1) of the
\* leftmost match, found |-> FALSE when there is none (case-sensitive)
HtmlBlock(s) ==
    LET S == {i \in 1..Len(s) :
                /\ s[i] = FENCE
                /\ i + 2 <= Len(s)
                /\ s[i + 1] = "html"
                /\ s[i + 2] = NL
                /\ NextIndex(s, i + 3, "FENCE") # 0}
        i0 == Min(S)
    IN IF S = {} THEN [found |-> FALSE, inner |-> <<>>]
       ELSE [found |-> TRUE,
             inner |-> Slice(s, i0 + 3, NextIndex(s, i0 + 3, "FENCE") - 1)]

\* mutant: no fallback when no file was found
FallbackSkipped(files, s) == files

\* "if not files": the single-HTML-file fallback
Fallback(files, s) ==
    IF DOMAIN files # {} THEN files
    ELSE IF HtmlBlock(s).found
         THEN Store(files, IndexHtml, Strip(HtmlBlock(s).inner))
    ELSE IF Find(s, DOCTYPE) # 0
         THEN Store(files, IndexHtml, Slice(s, Find(s, DOCTYPE), Len(s)))
    ELSE Store(files, IndexHtml, s)

parse_generated_code(content) ==
    Fallback(Pass2(Pass1(NoFiles, Matches1(content)), Matches2(content)), content)

----------------------------------------------------------------------------
(* categorize_file *)

\* any(x in filename_lower for x in needles); every needle is one token
AnyIn(path, needles) == \E k \in 1..Len(path) : Lower(path[k]) \in needles

\* filename_lower.endswith(suffix)
EndsWith(path, suffix) == Len(path) > 0 /\ Lower(path[Len(path)]) = suffix

\* the rules without the final return "other": the call returns None
categorize_file_no_default(filename) ==
    IF AnyIn(filename, {"frontend/", "client/", "components/", "pages/",
                        ".html", ".css", ".jsx", ".tsx", ".vue"})
    THEN "frontend"
    ELSE IF AnyIn(filename, {"backend/", "server/", "api/", "routes/",
                             "controllers/", "server.js", "app.py", "main.py"})
    THEN "backend"
    ELSE IF AnyIn(filename, {"schema", "migration", "seed", ".sql",
                             "models.py", "models.js"})
    THEN "database"
    ELSE IF AnyIn(filename, {".env", "config", "package.json",
                             "requirements.txt", "docker"})
    THEN "config"
    ELSE IF EndsWith(filename, ".md")
    THEN "docs"
    ELSE "None"

categorize_file(filename) ==
    IF AnyIn(filename, {"frontend/", "client/", "components/", "pages/",
                        ".html", ".css", ".jsx", ".tsx", ".vue"})
    THEN "frontend"
    ELSE IF AnyIn(filename, {"backend/", "server/", "api/", "routes/",
                             "controllers/", "server.js", "app.py", "main.py"})
    THEN "backend"
    ELSE IF AnyIn(filename, {"schema", "migration", "seed", ".sql",
                             "models.py", "models.js"})
    THEN "database"
    ELSE IF AnyIn(filename, {".env", "config", "package.json",
                             "requirements.txt", "docker"})
    THEN "config"
    ELSE IF EndsWith(filename, ".md")
    THEN "docs"
    ELSE "other"

----------------------------------------------------------------------------
(* The HTML extraction of generate_static_website *)

\* group(1) of re.search(fence html\s*(<!DOCTYPE html>.*?) fence, content,
\* re.DOTALL | re.IGNORECASE), found |-> FALSE when there is no match
DoctypeBlock(s) ==
    LET Start(i) == SkipTo(s, i + 2, "NotSpace")
        S == {i \in 1..Len(s) :
                /\ s[i] = FENCE
                /\ i + 1 <= Len(s)
                /\ Lower(s[i + 1]) = "html"
                /\ Start(i) <= Len(s)
                /\ Lower(s[Start(i)]) = DoctypeLower
                /\ NextIndex(s, Start(i) + 1, "FENCE") # 0}
        i0 == Min(S)
    IN IF S = {} THEN [found |-> FALSE, inner |-> <<>>]
       ELSE [found |-> TRUE,
             inner |-> Slice(s, Start(i0),
                             NextIndex(s, Start(i0) + 1, "FENCE") - 1)]

\* group(1) of re.search(fence html?\s*(.*?) fence, content,
\* re.DOTALL | re.IGNORECASE)
AnyHtmlBlock(s) ==
    LET Start(i) == SkipTo(s, i + 2, "NotSpace")
        S == {i \in 1..Len(s) :
                /\ s[i] = FENCE
                /\ i + 1 <= Len(s)
                /\ Lower(s[i + 1]) \in {"html", "htm"}
                /\ NextIndex(s, Start(i), "FENCE") # 0}
        i0 == Min(S)
    IN IF S = {} THEN [found |-> FALSE, inner |-> <<>>]
       ELSE [found |-> TRUE,
             inner |-> Slice(s, Start(i0),
                             NextIndex(s, Start(i0), "FENCE") - 1)]

\* mutant: '<html' is looked for before the doctype
StartIndexHtmlFirst(content) ==
    IF Find(content, HTML_OPEN) # 0 THEN Find(content, HTML_OPEN)
    ELSE Find(content, DOCTYPE)

\* start = content.find("<!DOCTYPE html>"), then content.find("<html")
StartIndex(content) ==
    IF Find(content, DOCTYPE) # 0 THEN Find(content, DOCTYPE)
    ELSE Find(content, HTML_OPEN)

\* html_content before the Tailwind check
ExtractHtml(content) ==
    IF StartIndex(content) # 0
    THEN Slice(content, StartIndex(content), Len(content))
    ELSE IF DoctypeBlock(content).found THEN DoctypeBlock(content).inner
    ELSE IF AnyHtmlBlock(content).found THEN AnyHtmlBlock(content).inner
    ELSE content

\* what follows '<head>' in the replacement string
TailwindScript ==
    <<NL, SP, SP, "<script src=\"https://", TAILWIND, "\"></script>">>

\* html_content.replace('<head>', '<head>' + script): every occurrence
RECURSIVE ReplaceHead(_)
ReplaceHead(h) ==
    IF h = <<>> THEN <<>>
    ELSE IF Head(h) = HEAD THEN <<HEAD>> \o TailwindScript \o ReplaceHead(Tail(h))
    ELSE <<Head(h)>> \o ReplaceHead(Tail(h))

\* mutant: the script is injected without looking for an existing reference
EnsureTailwindUnchecked(h) ==
    IF Contains(h, HEAD) THEN ReplaceHead(h) ELSE h

\* "Ensure Tailwind CDN is included"
EnsureTailwind(h) ==
    IF ~Contains(h, TAILWIND) /\ Contains(h, HEAD) THEN ReplaceHead(h) ELSE h

----------------------------------------------------------------------------
(* The completion text *)

\* A reply is a sequence of blocks: a single token, a fenced code block whose
\* first line is a filename comment, or a filename comment line with the
\* code after it.
Raw(t) == [kind |-> "raw", tag |-> <<>>, path |-> <<>>, body |-> <<t>>]

Fenced(tag, path, body) ==
    [kind |-> "fenced", tag |-> tag, path |-> path, body |-> body]

Unfenced(path, body) ==
    [kind |-> "unfenced", tag |-> <<>>, path |-> path, body |-> body]

MarkerLine(path) == <<"//", SP, "filename:", SP>> \o path \o <<NL>>

RenderBlock(b) ==
    CASE b.kind = "raw" -> b.body
      [] b.kind = "fenced" ->
            <<FENCE>> \o b.tag \o <<NL>> \o MarkerLine(b.path) \o b.body \o <<FENCE>>
      [] b.kind = "unfenced" -> MarkerLine(b.path) \o b.body

RECURSIVE Render(_)
Render(bs) == IF bs = <<>> THEN <<>> ELSE RenderBlock(Head(bs)) \o Render(Tail(bs))

MaxBlocks == 2
MaxFreeLen == 4
MaxStaticLen == 4

SeqsUpTo(S, n) == UNION {[1..k -> S] : k \in 0..n}

Tags == {<<>>, <<"x">>, <<"+">>}
Paths == {<<"x">>, <<"app.py">>}
Bodies == {<<"y">>, <<"z", NL>>}

Blocks ==
    {Raw(t) : t \in {FENCE, NL, SP, "x", "//", "filename:"}}
    \cup {Fenced(t, p, b) : t \in Tags, p \in Paths, b \in Bodies}
    \cup {Unfenced(p, b) : p \in Paths, b \in Bodies}

FreeTokens == {FENCE, "#", "Filename:", NL, SP, "x", "+"}

StaticTokens == {FENCE, "html", "htm", NL, "x", DOCTYPE, DoctypeLower, HTML_OPEN, HEAD, TAILWIND}

\* the example of the extraction's expected behaviour: a fenced document
\* with noise on both sides
NoiseExample ==
    <<"noise", SP, FENCE, "html", NL, DOCTYPE, HTML_OPEN, "></html>", NL,
      FENCE, SP, "more", SP, "noise">>

RawReply(s) == [k \in 1..Len(s) |-> Raw(s[k])]

Replies ==
    SeqsUpTo(Blocks, MaxBlocks)
    \cup {RawReply(s) : s \in SeqsUpTo(FreeTokens, MaxFreeLen)}
    \cup {RawReply(s) : s \in SeqsUpTo(StaticTokens, MaxStaticLen)}
    \cup {RawReply(NoiseExample)}

\* the result dict of call_openrouter_api
Success(content) == [success |-> TRUE, content |-> content]

Failure == [success |-> FALSE, content |-> <<>>]

\* the backend's part in a completion call: the call times out, the
\* connection fails, the status is not 2xx, the body is not JSON, the body is
\* JSON without choices[0].message.content, or the body holds a content
Backend(kind, content) == [kind |-> kind, content |-> content]

\* no completion call
NoBackend == Backend("none", <<>>)

----------------------------------------------------------------------------
(* Return values *)

NoReturn == [status |-> "none", html |-> <<>>, files |-> NoFiles]

Files(files) == [status |-> "success", html |-> <<>>, files |-> files]

Html(html) == [status |-> "success", html |-> html, files |-> NoFiles]

Failed == [status |-> "failure", html |-> <<>>, files |-> NoFiles]

\* an exception that leaves the function
Raised == [status |-> "raised", html |-> <<>>, files |-> NoFiles]

\* a function that has returned the dict in result
Returned == [status |-> "returned", html |-> <<>>, files |-> NoFiles]

Categories == {"frontend", "backend", "database", "config", "docs"}

\* organized_files after the loop, whose categories are the five keys the
\* dict is created with
Organize(files) ==
    [c \in Categories |->
        [p \in {q \in DOMAIN files : categorize_file(q) = c} |-> files[p]]]

\* the body of generate_fullstack_website after the completion call:
\* organized_files[category] raises KeyError for a category that is no key
generate_fullstack_website(res) ==
    IF ~res.success THEN Failed
    ELSE LET files == parse_generated_code(res.content)
         IN IF \E p \in DOMAIN files : categorize_file(p) \notin Categories
            THEN Raised
            ELSE Files(Organize(files))

\* the body of generate_static_website after the completion call
generate_static_website(res) ==
    IF ~res.success THEN Failed
    ELSE Html(Strip(EnsureTailwind(ExtractHtml(res.content))))

----------------------------------------------------------------------------
(* The module globals and the requests *)

\* None
None == [none |-> TRUE, text |-> <<>>]

\* a str value
Text(s) == [none |-> FALSE, text |-> s]

\* truth value of an Optional[str]: None and '' are false
Truthy(v) == ~v.none /\ v.text # <<>>

\* a project dict; id n stands for the key "project_n"; features is the set
\* of the keys of project['features'] whose value is True, empty also when
\* the dict has no 'features' key (project.get('features', {}))
Project(id, features, files) ==
    [id |-> id, features |-> features, files |-> files]

\* latest_project = None
NoProject == Project(0, {}, <<>>)

\* generated_websites = {}
NoProjects == [k \in {} |-> NoProject]

Threads == {1, 2}

\* a thread that serves no request
Idle == [at |-> "idle", project_id |-> 0, project |-> NoProject]

\* a thread inside a view, with the view's local variables
Serving(at, project_id, project) ==
    [at |-> at, project_id |-> project_id, project |-> project]

\* no Content-Disposition header
NoAttachment == [name |-> "none", id |-> 0]

\* a response: the view, the status code, whether it carries an error, how
\* the generator called for it ended, and for a download the project id
\* asked for, the number of entries written to the archive under each name,
\* the features its README lists and the filename of the attachment
Response(view, status, error, outcome) ==
    [view |-> view, status |-> status, error |-> error, outcome |-> outcome,
     project_id |-> 0, archive |-> <<>>, listed |-> {},
     attachment |-> NoAttachment]

\* before the first response
NoResponse == Response("none", 0, FALSE, "none")

\* the globals as the module sets them when it is loaded, and no request
WebIdle ==
    /\ generated_websites = NoProjects
    /\ latest_html = None
    /\ latest_project = NoProject
    /\ threads = [t \in Threads |-> Idle]
    /\ response = NoResponse

----------------------------------------------------------------------------
(* The state machine: one completion, then one of the functions on it *)

Init ==
    /\ reply \in Replies
    /\ result \in {Success(Render(reply))} \cup (IF reply = <<>> THEN {Failure} ELSE {})
    /\ pc = "ready"
    /\ ret = NoReturn
    /\ path_arg = <<>>
    /\ backend = NoBackend
    /\ WebIdle

ParseGeneratedCode ==
    /\ pc = "ready"
    /\ result.success
    /\ pc' = "parsed"
    /\ ret' = Files(parse_generated_code(result.content))
    /\ UNCHANGED <<reply, result, path_arg, backend, webvars>>

GenerateStaticWebsite ==
    /\ pc = "ready"
    /\ pc' = "static"
    /\ ret' = generate_static_website(result)
    /\ UNCHANGED <<reply, result, path_arg, backend, webvars>>

GenerateFullstackWebsite ==
    /\ pc = "ready"
    /\ pc' = "fullstack"
    /\ ret' = generate_fullstack_website(result)
    /\ UNCHANGED <<reply, result, path_arg, backend, webvars>>

Next ==
    \/ ParseGeneratedCode
    \/ GenerateStaticWebsite
    \/ GenerateFullstackWebsite

Spec == Init /\ [][Next]_vars

----------------------------------------------------------------------------
(* categorize_file on its own: a path, then the call *)

MaxPathLen == 3

\* path pieces: directory segments, names and extensions the rules tell apart
PathTokens ==
    {"frontend/", "api/", "x", "README", "schema", "config",
     ".css", ".HTML", ".sql", ".md", ".MD"}

PathInputs == SeqsUpTo(PathTokens, MaxPathLen)

\* the value categorize_file returns
Category(c) == [status |-> "success", category |-> c]

InitCategorize ==
    /\ path_arg \in PathInputs
    /\ backend = NoBackend
    /\ reply = <<>>
    /\ result = Failure
    /\ pc = "ready"
    /\ ret = NoReturn
    /\ WebIdle

CategorizeFile ==
    /\ pc = "ready"
    /\ pc' = "categorized"
    /\ ret' = Category(categorize_file(path_arg))
    /\ UNCHANGED <<reply, result, path_arg, backend, webvars>>

NextCategorize == CategorizeFile

SpecCategorize == InitCategorize /\ [][NextCategorize]_vars

----------------------------------------------------------------------------
(* The completion clients: call_openrouter_api and
   OpenRouterService._make_request *)

MaxContentLen == 2

ErrorKinds == {"timeout", "transport", "status", "malformed", "no_choices"}

Backends ==
    {Backend("ok", Render(r)) : r \in SeqsUpTo(Blocks, 1)}
    \cup {Backend("ok", s) : s \in SeqsUpTo(FreeTokens, MaxContentLen)}
    \cup {Backend(k, <<>>) : k \in ErrorKinds}

\* how a call ends: whether an exception leaves it, and the dict it returns
Ends(ret_, result_) == [ret |-> ret_, result |-> result_]

\* try ... except Exception: every error becomes the failure dict
call_openrouter_api(b) ==
    IF b.kind = "ok" THEN {Ends(Returned, Success(b.content))}
    ELSE {Ends(Returned, Failure)}

\* try ... except requests.exceptions.RequestException: Timeout,
\* ConnectionError and HTTPError are caught; response.json() raises a
\* RequestException or a plain ValueError, as the installed requests has it;
\* the KeyError, IndexError or TypeError of data["choices"][0]["message"]
\* ["content"] is not caught
make_request(b) ==
    CASE b.kind = "ok" -> {Ends(Returned, Success(b.content))}
      [] b.kind \in {"timeout", "transport", "status"} ->
            {Ends(Returned, Failure)}
      [] b.kind = "malformed" ->
            {Ends(Returned, Failure), Ends(Raised, Failure)}
      [] OTHER -> {Ends(Raised, Failure)}

InitClient ==
    /\ backend \in Backends
    /\ reply = <<>>
    /\ result = Failure
    /\ pc = "ready"
    /\ ret = NoReturn
    /\ path_arg = <<>>
    /\ WebIdle

CallOpenrouterApi ==
    /\ pc = "ready"
    /\ pc' = "call_openrouter_api"
    /\ \E e \in call_openrouter_api(backend) :
          ret' = e.ret /\ result' = e.result
    /\ UNCHANGED <<reply, path_arg, backend, webvars>>

MakeRequest ==
    /\ pc = "ready"
    /\ pc' = "_make_request"
    /\ \E e \in make_request(backend) :
          ret' = e.ret /\ result' = e.result
    /\ UNCHANGED <<reply, path_arg, backend, webvars>>

NextClient == CallOpenrouterApi \/ MakeRequest

SpecClient == InitClient /\ [][NextClient]_vars

----------------------------------------------------------------------------
(* The views: home, convert_static_to_fullstack_view, download_project *)

MaxProjects == 2

\* the keys of the features dict of home
FeatureNames ==
    {"has_authentication", "has_database", "has_api", "has_realtime",
     "has_payments"}

\* the boxes ticked in the form
FeatureSets == {{}, {"has_database", "has_realtime"}}

\* 'README.md'
ReadmeMd == <<"README", ".md">>

\* completion texts: two files, one of them README.md; one file that no
\* category rule matches; the empty text
WebReplies ==
    { <<Unfenced(<<"app.py">>, <<"y">>), Unfenced(ReadmeMd, <<"z">>)>>,
      <<Unfenced(<<"x">>, <<"y">>)>>,
      <<>> }

\* what call_openrouter_api returns to a generator
WebResults == {Failure} \cup {Success(Render(r)) : r \in WebReplies}

\* organized_files of convert_to_fullstack: a key is made when its first
\* file comes
OrganizeByKey(files) ==
    [c \in {categorize_file(p) : p \in DOMAIN files} |->
        [p \in {q \in DOMAIN files : categorize_file(q) = c} |-> files[p]]]

\* the body of convert_to_fullstack after the completion call
convert_to_fullstack(res) ==
    IF ~res.success THEN Failed
    ELSE Files(OrganizeByKey(parse_generated_code(res.content)))

\* the returns of the three generators over the completions
StaticOutcomes == {generate_static_website(r) : r \in WebResults}
HomeOutcomes == {generate_fullstack_website(r) : r \in WebResults}
ConvertOutcomes == {convert_to_fullstack(r) : r \in WebResults}

\* generate_local_html(title, prompt)
LocalHtml == <<DOCTYPE, HTML_OPEN, HEAD, TAILWIND>>

\* latest_html after the static branch of home, whatever the result
StaticLatestAssigned(o, html) == Text(o.html)

\* latest_html after the static branch of home
StaticLatest(o, html) == IF o.status = "success" THEN Text(o.html) ELSE html

\* len(generated_websites) + 1, the n of f"project_{n}"
NextId(websites) == Cardinality(DOMAIN websites) + 1

\* generated_websites[project_id] = project
Put(websites, project_id, project) ==
    [k \in (DOMAIN websites) \cup {project_id} |->
        IF k = project_id THEN project ELSE websites[k]]

\* the registry has room for the requests in flight and one more
CanStore ==
    Cardinality(DOMAIN generated_websites)
        + Cardinality({t \in Threads : threads[t] # Idle}) < MaxProjects

\* the filenames of project['files'], over its categories
ProjectPaths(files) == UNION {DOMAIN files[c] : c \in DOMAIN files}

\* the zip after writestr for each of the paths and then for each of the
\* added names: the number of entries under each name
Entries(paths, added) ==
    [p \in paths \cup added |->
        (IF p \in paths THEN 1 ELSE 0) + (IF p \in added THEN 1 ELSE 0)]

\* the lines under '## Features' of the README
ReadmeFeatures(features) ==
    features \cap {"has_authentication", "has_database", "has_api"}

\* the filename is 'static-website' whatever the id
AttachmentStatic(project_id) == [name |-> "static-website", id |-> 0]

\* filename = project_id if project_id else 'static-website'; the name
\* "project_id" with id n stands for the id string "project_n"
Attachment(project_id) ==
    IF project_id # 0 THEN [name |-> "project_id", id |-> project_id]
    ELSE [name |-> "static-website", id |-> 0]

\* an application/zip response
Zip(project_id, archive, listed) ==
    [Response("download", 200, FALSE, "none")
        EXCEPT !.project_id = project_id, !.archive = archive,
               !.listed = listed, !.attachment = Attachment(project_id)]

\* HttpResponse("No project to download", status=404)
NotFound(project_id) ==
    [Response("download", 404, TRUE, "none") EXCEPT !.project_id = project_id]

\* download_project that sends what it has written, also when it is nothing
download_project_always(project_id, websites, html) ==
    IF project_id # 0 /\ project_id \in DOMAIN websites
    THEN Zip(project_id,
             Entries(ProjectPaths(websites[project_id].files), {ReadmeMd}),
             ReadmeFeatures(websites[project_id].features))
    ELSE IF Truthy(html)
    THEN Zip(project_id, Entries({IndexHtml}, {ReadmeMd}), {})
    ELSE Zip(project_id, <<>>, {})

\* download_project; project_id 0 stands for None
download_project(project_id, websites, html) ==
    IF project_id # 0 /\ project_id \in DOMAIN websites
    THEN Zip(project_id,
             Entries(ProjectPaths(websites[project_id].files), {ReadmeMd}),
             ReadmeFeatures(websites[project_id].features))
    ELSE IF Truthy(html)
    THEN Zip(project_id, Entries({IndexHtml}, {ReadmeMd}), {})
    ELSE NotFound(project_id)

InitWeb ==
    /\ reply = <<>>
    /\ result = Failure
    /\ pc = "ready"
    /\ ret = NoReturn
    /\ path_arg = <<>>
    /\ backend = NoBackend
    /\ WebIdle

\* home, POST, project_type static, mode ai
HomeStaticAi(t) ==
    /\ threads[t] = Idle
    /\ \E o \in StaticOutcomes :
          /\ latest_html' = StaticLatest(o, latest_html)
          /\ response' = Response("home", 200, o.status # "success", o.status)
    /\ UNCHANGED <<generated_websites, latest_project, threads>>
    /\ UNCHANGED <<reply, result, pc, ret, path_arg, backend>>

\* home, POST, project_type static, mode local
HomeStaticLocal(t) ==
    /\ threads[t] = Idle
    /\ latest_html' = Text(LocalHtml)
    /\ response' = Response("home", 200, FALSE, "local")
    /\ UNCHANGED <<generated_websites, latest_project, threads>>
    /\ UNCHANGED <<reply, result, pc, ret, path_arg, backend>>

\* home, POST, project_type fullstack, up to the project id
HomeFullstack(t) ==
    /\ threads[t] = Idle
    /\ \E o \in HomeOutcomes, features \in FeatureSets :
          IF o.status = "success"
          THEN /\ CanStore
               /\ threads' = [threads EXCEPT ![t] =
                     Serving("latest_project", NextId(generated_websites),
                             Project(NextId(generated_websites), features,
                                     o.files))]
               /\ UNCHANGED response
          ELSE /\ response' = Response("home", 200, TRUE, o.status)
               /\ UNCHANGED threads
    /\ UNCHANGED <<generated_websites, latest_html, latest_project>>
    /\ UNCHANGED <<reply, result, pc, ret, path_arg, backend>>

\* latest_project = {...}
HomeAssign(t) ==
    /\ threads[t].at = "latest_project"
    /\ latest_project' = threads[t].project
    /\ threads' = [threads EXCEPT ![t].at = "generated_websites"]
    /\ UNCHANGED <<generated_websites, latest_html, response>>
    /\ UNCHANGED <<reply, result, pc, ret, path_arg, backend>>

\* generated_websites[project_id] = latest_project, and the page
HomeStore(t) ==
    /\ threads[t].at = "generated_websites"
    /\ generated_websites' =
          Put(generated_websites, threads[t].project_id, latest_project)
    /\ response' = Response("home", 200, FALSE, "success")
    /\ threads' = [threads EXCEPT ![t] = Idle]
    /\ UNCHANGED <<latest_html, latest_project>>
    /\ UNCHANGED <<reply, result, pc, ret, path_arg, backend>>

\* convert_static_to_fullstack_view, not a POST
ConvertNotPost(t) ==
    /\ threads[t] = Idle
    /\ response' = Response("convert", 400, TRUE, "none")
    /\ UNCHANGED <<generated_websites, latest_html, latest_project, threads>>
    /\ UNCHANGED <<reply, result, pc, ret, path_arg, backend>>

\* convert_static_to_fullstack_view, POST, up to the project dict; the body
\* is JSON for a dict or json.loads / data.get raises
Convert(t) ==
    /\ threads[t] = Idle
    /\ IF ~Truthy(latest_html)
       THEN /\ response' = Response("convert", 400, TRUE, "none")
            /\ UNCHANGED threads
       ELSE \E body_ok \in BOOLEAN, o \in ConvertOutcomes :
              IF ~body_ok
              THEN /\ response' = Response("convert", 500, TRUE, "raised")
                   /\ UNCHANGED threads
              ELSE IF o.status = "success"
              THEN /\ CanStore
                   /\ threads' = [threads EXCEPT ![t] =
                         Serving("store", NextId(generated_websites),
                                 Project(NextId(generated_websites), {},
                                         o.files))]
                   /\ UNCHANGED response
              ELSE /\ response' = Response("convert", 500, TRUE, o.status)
                   /\ UNCHANGED threads
    /\ UNCHANGED <<generated_websites, latest_html, latest_project>>
    /\ UNCHANGED <<reply, result, pc, ret, path_arg, backend>>

\* generated_websites[project_id] = project, and the JSON response
ConvertStore(t) ==
    /\ threads[t].at = "store"
    /\ generated_websites' =
          Put(generated_websites, threads[t].project_id, threads[t].project)
    /\ response' = Response("convert", 200, FALSE, "success")
    /\ threads' = [threads EXCEPT ![t] = Idle]
    /\ UNCHANGED <<latest_html, latest_project>>
    /\ UNCHANGED <<reply, result, pc, ret, path_arg, backend>>

\* download_project, with or without a project id
DownloadProject(t) ==
    /\ threads[t] = Idle
    /\ \E project_id \in 0..MaxProjects :
          response' = download_project(project_id, generated_websites,
                                       latest_html)
    /\ UNCHANGED <<generated_websites, latest_html, latest_project, threads>>
    /\ UNCHANGED <<reply, result, pc, ret, path_arg, backend>>

NextWeb ==
    \E t \in Threads :
        \/ HomeStaticAi(t)
        \/ HomeStaticLocal(t)
        \/ HomeFullstack(t)
        \/ HomeAssign(t)
        \/ HomeStore(t)
        \/ ConvertNotPost(t)
        \/ Convert(t)
        \/ ConvertStore(t)
        \/ DownloadProject(t)

SpecWeb == InitWeb /\ [][NextWeb]_vars

----------------------------------------------------------------------------
(* Claims *)

\* a successful completion on which parse_generated_code has returned
Parsed == pc = "parsed" /\ result.success

\* a successful completion on which generate_static_website has returned
StaticDone == pc = "static" /\ result.success

\* a successful completion on which generate_fullstack_website has ended
FullstackDone == pc = "fullstack" /\ result.success

\* the declarations of a text in pass order: fenced pass, then unfenced pass
Declarations(s) == Matches1(s) \o Matches2(s)

\* the first declaration of path p among ms
FirstOf(ms, p) == ms[Min({k \in 1..Len(ms) : ms[k].filename = p})]

\* C1: after parse_generated_code, the content kept for a path that several
\* markers declare is the content of its first declaration in pass order
\* (fenced pass, then unfenced pass); no later match overwrites an earlier one.
C1_FirstDeclarationKept ==
    Parsed =>
        LET ms == Declarations(result.content)
        IN \A k \in 1..Len(ms) :
              /\ ms[k].filename \in DOMAIN ret.files
              /\ ret.files[ms[k].filename] = FirstOf(ms, ms[k].filename).code

\* C2: for every successful completion text generate_fullstack_website returns
\* a success result without raising, and every path parse_generated_code
\* returns is filed under exactly the category categorize_file gives it,
\* 'other' included.
C2_FullstackFilesEveryPath ==
    FullstackDone =>
        /\ ret.status = "success"
        /\ \A p \in DOMAIN parse_generated_code(result.content) :
              /\ categorize_file(p) \in DOMAIN ret.files
              /\ \A c \in DOMAIN ret.files :
                    p \in DOMAIN ret.files[c] <=> c = categorize_file(p)

\* C3: for every input parse_generated_code returns, without raising, a
\* mapping with at least one entry.
C3_ParseReturnsAnEntry ==
    Parsed => ret.status = "success" /\ DOMAIN ret.files # {}

\* a marker was written but neither pattern matched it, and the text is
\* still parsed into an entry
C3_Witness ==
    /\ Parsed
    /\ Declarations(result.content) = <<>>
    /\ \E i \in 1..Len(result.content) : MarkerEnd(result.content, i) # 0
    /\ DOMAIN ret.files # {}

\* a '//' or '#' comment followed, after optional whitespace, by 'filename:'
\* in any letter case
HasFilenameComment(s) ==
    \E i, j \in 1..Len(s) :
        /\ i < j
        /\ s[i] \in {"//", "#"}
        /\ \A k \in (i + 1)..(j - 1) : s[k] \in {SP, NL}
        /\ s[j] \in {"filename:", "Filename:"}

\* C4: for every input without a filename marker parse_generated_code
\* returns exactly one entry, keyed index.html.
C4_NoMarkerGivesIndexHtml ==
    (Parsed /\ ~HasFilenameComment(result.content)) =>
        DOMAIN ret.files = {IndexHtml}

\* the keyword 'filename:' is there, but no comment introduces it
C4_Witness ==
    /\ Parsed
    /\ ~HasFilenameComment(result.content)
    /\ \E k \in 1..Len(result.content) : Lower(result.content[k]) = "filename:"
    /\ Contains(result.content, NL)
    /\ DOMAIN ret.files = {IndexHtml}

\* a reply made only of fenced blocks that start with a filename comment,
\* no path declared twice
OnlyFencedBlocks ==
    /\ reply # <<>>
    /\ \A k \in 1..Len(reply) : reply[k].kind = "fenced"
    /\ \A j, k \in 1..Len(reply) : j # k => reply[j].path # reply[k].path

\* C5: for an input made only of well-formed fenced blocks whose first line
\* is a filename comment, the keys are exactly the declared paths and each
\* value is exactly the trimmed body of that path's block.
C5_FencedBlocksRecovered ==
    (Parsed /\ OnlyFencedBlocks) =>
        /\ DOMAIN ret.files = {reply[k].path : k \in 1..Len(reply)}
        /\ \A k \in 1..Len(reply) : ret.files[reply[k].path] = Strip(reply[k].body)

\* a reply whose filename comments are all unfenced and whole: no fenced
\* block, no stray piece of a marker, and no fence standing right before a
\* filename comment line
OnlyUnfencedMarkers ==
    /\ \E k \in 1..Len(reply) : reply[k].kind = "unfenced"
    /\ \A k \in 1..Len(reply) :
          \/ reply[k].kind = "unfenced"
          \/ reply[k] \in {Raw(FENCE), Raw(NL), Raw(SP), Raw("x")}
    /\ \A k \in 2..Len(reply) :
          reply[k].kind = "unfenced" => reply[k - 1] # Raw(FENCE)

\* C6: the content stored for an unfenced filename comment line is trimmed
\* and has its trailing fence-close marker removed: it ends neither with a
\* fence marker nor with whitespace left in front of the removed marker.
C6_UnfencedContentTrimmed ==
    (Parsed /\ OnlyUnfencedMarkers) =>
        \A k \in 1..Len(reply) :
            reply[k].kind = "unfenced" =>
                LET c == ret.files[reply[k].path]
                IN c # <<>> => (c[Len(c)] # FENCE /\ ~IsSpace(c[Len(c)]))

\* the first doctype declaration in any letter case, 0 when there is none
FindDoctypeAnyCase(s) ==
    LET S == {k \in 1..Len(s) : s[k] \in {DOCTYPE, DoctypeLower}}
    IN IF S = {} THEN 0 ELSE Min(S)

\* the strategy list as stated: doctype in any case, then html tag, then a
\* fenced html block with a doctype, then any fenced html block, then the text
ByStrategyList(s) ==
    IF FindDoctypeAnyCase(s) # 0 THEN Slice(s, FindDoctypeAnyCase(s), Len(s))
    ELSE IF Find(s, HTML_OPEN) # 0 THEN Slice(s, Find(s, HTML_OPEN), Len(s))
    ELSE IF DoctypeBlock(s).found THEN DoctypeBlock(s).inner
    ELSE IF AnyHtmlBlock(s).found THEN AnyHtmlBlock(s).inner
    ELSE s

\* C7: the extraction of generate_static_website follows the strategy list in
\* strict precedence, the first strategy being the first doctype declaration,
\* matched case-insensitively, to the end of the text.
C7_StrategyPrecedence ==
    StaticDone =>
        ret.html = Strip(EnsureTailwind(ByStrategyList(result.content)))

\* C8: for the fenced document with noise before and after the fence, the
\* extracted document is exactly the document inside the fence.
C8_NoiseExampleExact ==
    (StaticDone /\ result.content = NoiseExample) =>
        ret.html = <<DOCTYPE, HTML_OPEN, "></html>">>

ScriptAfter(h, k) ==
    /\ k + Len(TailwindScript) <= Len(h)
    /\ SubSeq(h, k + 1, k + Len(TailwindScript)) = TailwindScript

\* C10: if the extracted document has a '<head>' tag and no framework
\* reference, the returned document has the script reference immediately
\* after the '<head>' tag; if it has a reference already, the returned
\* document has as many references as the extracted one.
C10_InjectOnceAfterHead ==
    StaticDone =>
        LET e == ExtractHtml(result.content)
        IN /\ (Contains(e, HEAD) /\ ~Contains(e, TAILWIND)) =>
                 /\ Contains(ret.html, HEAD)
                 /\ \A k \in 1..Len(ret.html) :
                       ret.html[k] = HEAD => ScriptAfter(ret.html, k)
           /\ Contains(e, TAILWIND) =>
                 Count(ret.html, TAILWIND) = Count(e, TAILWIND)

\* a head without a reference got one
C10_Witness ==
    /\ StaticDone
    /\ Contains(ExtractHtml(result.content), HEAD)
    /\ ~Contains(ExtractHtml(result.content), TAILWIND)
    /\ Count(ret.html, TAILWIND) = Count(ret.html, HEAD)

----------------------------------------------------------------------------
(* Claims about categorize_file *)

\* categorize_file has returned
Categorized == pc = "categorized"

\* the path ends with one of the extensions, in any casing
EndsWithAny(path, exts) ==
    Len(path) > 0 /\ \E e \in exts : Lower(path[Len(path)]) = e

FrontendDirs == {"frontend/", "client/", "components/", "pages/"}
FrontendExts == {".html", ".css", ".jsx", ".tsx", ".vue"}
BackendDirs == {"backend/", "server/", "api/", "routes/", "controllers/"}
BackendFiles == {"server.js", "app.py", "main.py"}
DatabaseWords == {"schema", "migration", "seed"}
DatabaseFiles == {"models.py", "models.js"}
ConfigWords == {".env", "config", "docker", "package.json", "requirements.txt"}

\* the priority list of the specification, extensions tested at the end of
\* the path
ByPriorityList(path) ==
    IF AnyIn(path, FrontendDirs) \/ EndsWithAny(path, FrontendExts)
    THEN "frontend"
    ELSE IF AnyIn(path, BackendDirs \cup BackendFiles)
    THEN "backend"
    ELSE IF \/ AnyIn(path, DatabaseWords \cup DatabaseFiles)
            \/ EndsWithAny(path, {".sql"})
    THEN "database"
    ELSE IF AnyIn(path, ConfigWords)
    THEN "config"
    ELSE IF EndsWithAny(path, {".md"})
    THEN "docs"
    ELSE "other"

\* C11: the category categorize_file returns is the one the priority list
\* gives, first matching rule first, with the extensions tested at the end of
\* the path, also for a path with an extension in its middle.
C11_FollowsPriorityList ==
    Categorized => ret.category = ByPriorityList(path_arg)

\* the last piece of the path is one of these spellings
LastIn(path, spellings) == Len(path) > 0 /\ path[Len(path)] \in spellings

\* the spellings of the listed extensions among the path pieces
FrontendSpellings == {".html", ".HTML", ".css"}
SqlSpellings == {".sql"}
MdSpellings == {".md", ".MD"}

\* some piece of the path is one of these spellings
SomeIn(path, spellings) == \E k \in 1..Len(path) : path[k] \in spellings

\* what the frontend, backend, database and config rules look for
FrontendMarks == FrontendDirs \cup FrontendSpellings
BackendMarks == BackendDirs \cup BackendFiles
DatabaseMarks == DatabaseWords \cup DatabaseFiles \cup SqlSpellings
ConfigMarks == ConfigWords

CategoryNames == {"frontend", "backend", "database", "config", "docs", "other"}

\* C13: for every path categorize_file returns one value, and it is one of
\* frontend, backend, database, config, docs, other.
C13_TotalOverCategoryNames ==
    Categorized => ret.category \in CategoryNames

\* a path no rule matches got the category other
C13_Witness ==
    /\ Categorized
    /\ path_arg = <<"x", "x">>
    /\ ret.category = "other"

\* C14: every key of the mapping parse_generated_code returns is non-empty
\* after whitespace stripping.
C14_KeysNonEmpty ==
    Parsed => \A p \in DOMAIN ret.files : Strip(p) # <<>>

----------------------------------------------------------------------------
(* Claims about the views *)

\* download_project has answered
Downloaded == response.view = "download"

\* the project the download asked for is in the registry
AskedStored ==
    /\ response.project_id # 0
    /\ response.project_id \in DOMAIN generated_websites

\* C15: in the archive of a stored project every path of its files and
\* README.md is written exactly once.
C15_EachPathOnce ==
    (Downloaded /\ AskedStored) =>
        /\ response.status = 200
        /\ DOMAIN response.archive =
              ProjectPaths(generated_websites[response.project_id].files)
                  \cup {ReadmeMd}
        /\ \A p \in DOMAIN response.archive : response.archive[p] = 1

\* C16: download_project answers 404 with no archive when the id asked for
\* is not stored and latest_html is None or empty; otherwise it answers with
\* an archive that holds the project's files, or index.html, and README.md.
C16_NotFoundOrArchive ==
    Downloaded =>
        IF AskedStored
        THEN /\ response.status = 200
             /\ ProjectPaths(generated_websites[response.project_id].files)
                   \cup {ReadmeMd} \subseteq DOMAIN response.archive
        ELSE IF Truthy(latest_html)
        THEN /\ response.status = 200
             /\ {IndexHtml, ReadmeMd} \subseteq DOMAIN response.archive
        ELSE /\ response.status = 404
             /\ response.error
             /\ response.archive = <<>>

\* a download with nothing to send, after a static page with empty text
C16_Witness ==
    /\ Downloaded
    /\ response.status = 404
    /\ latest_html = Text(<<>>)

\* C18: the README of a stored project's archive lists exactly the features
\* enabled on the project.
C18_ReadmeListsEnabledFeatures ==
    (Downloaded /\ AskedStored) =>
        response.listed = generated_websites[response.project_id].features

\* C19: every write to generated_websites adds one key that was not there
\* and leaves the stored projects as they were.
C19_StoreUnderFreshId ==
    [][generated_websites' # generated_websites =>
          /\ \E k \in DOMAIN generated_websites' :
                /\ k \notin DOMAIN generated_websites
                /\ DOMAIN generated_websites' =
                      DOMAIN generated_websites \cup {k}
          /\ \A j \in DOMAIN generated_websites :
                generated_websites'[j] = generated_websites[j]]_vars

\* a step of a full-stack request of home
FullstackStep ==
    \E t \in Threads : HomeFullstack(t) \/ HomeAssign(t) \/ HomeStore(t)

\* C20: a step that answers a generation or conversion request whose
\* generator returned a failure or raised leaves latest_html, latest_project
\* and generated_websites as they were and answers with an error; no step of
\* a full-stack request changes latest_html.
C20_FailureLeavesGlobals ==
    [][ /\ ( /\ response' # response
             /\ response'.view \in {"home", "convert"}
             /\ response'.outcome \in {"failure", "raised"} )
           => /\ response'.error
              /\ UNCHANGED <<latest_html, latest_project, generated_websites>>
        /\ (latest_html' = latest_html \/ ~FullstackStep) ]_vars

\* a request failed on an exception while a page and a project were stored
C20_Witness ==
    /\ response.view = "home"
    /\ response.outcome = "raised"
    /\ response.error
    /\ Truthy(latest_html)
    /\ generated_websites # NoProjects

----------------------------------------------------------------------------
(* Claims about the completion clients *)

\* C17: a completion call never raises: whatever the backend does, the call
\* returns, and when the backend gives no content it returns the failure
\* dict, which has no content.
C17_CompletionNeverRaises ==
    pc \in {"call_openrouter_api", "_make_request"} =>
        /\ ret = Returned
        /\ backend.kind # "ok" => result = Failure

----------------------------------------------------------------------------
(* Claims about a download under an unknown id *)

\* the download asked for an id that is no key of generated_websites while
\* latest_html holds a document
AskedUnknownWithStatic ==
    /\ Downloaded
    /\ response.project_id # 0
    /\ response.project_id \notin DOMAIN generated_websites
    /\ Truthy(latest_html)

\* C21: a download under an id that is not stored, while a static document
\* exists, is not answered with not-found: the response is the archive of
\* index.html and README.md, and its attachment filename is the id asked for.
C21_UnknownIdGivesStaticArchive ==
    AskedUnknownWithStatic =>
        /\ response.status = 200
        /\ ~response.error
        /\ response.archive = Entries({IndexHtml}, {ReadmeMd})
        /\ response.attachment =
              [name |-> "project_id", id |-> response.project_id]

\* an unknown id was asked for after a static page and got an archive
C21_Witness ==
    /\ AskedUnknownWithStatic
    /\ response.status = 200
    /\ DOMAIN response.archive = {IndexHtml, ReadmeMd}

----------------------------------------------------------------------------
(* Claims about applying the document extraction twice *)

\* C22: the document extraction of generate_static_website is idempotent:
\* run on the document it returned, for any completion text, it returns
\* that document unchanged.
C22_ExtractionIdempotent ==
    StaticDone => generate_static_website(Success(ret.html)) = Html(ret.html)

\* a text around a document that got the script reference: the extraction
\* cut it and injected, and on its result it does neither
C22_Witness ==
    /\ StaticDone
    /\ Len(ret.html) > 0
    /\ ExtractHtml(result.content) # result.content
    /\ ~Contains(result.content, TAILWIND)
    /\ Contains(ret.html, TAILWIND)
    /\ generate_static_website(Success(ret.html)) = Html(ret.html)

====
